---- MODULE Spec2Model ----
(***************************************************************************)
(* A model of the fmidi player (sources/fmidi/fmidi_player.cc): the tick   *)
(* handler, start/stop/rewind/goto_time, the setters, the callback         *)
(* registrations and fmidi_player_free, over an event sequence with        *)
(* integer timestamps.                                                     *)
(*                                                                         *)
(* Play time is integer valued: timestamps, the loop time ev_now and the   *)
(* speed are integers, so "timepos += speed * (now - prev_tick)" is exact. *)
(* The tick interval and the clock frequency are IEEE 754 doubles with the *)
(* correctly rounded division of the hardware.                             *)
(* The sequence cursor (fmidi_seq) and the host timer (ev_timer) are       *)
(* not part of the player source; they are modelled from their use.        *)
(***************************************************************************)
EXTENDS Integers, Sequences, FiniteSets, TLC

\* ---------------------------------------------------------------- bounds
\* longest event sequence
MaxLen == 2
\* largest event timestamp; goto_time targets range over 0..MaxTime+1
MaxTime == 1
\* largest loop time (ev_now) at which a tick fires
MaxNow == 4
\* number of calls callbacks make back into the player in one behaviour
MaxReent == 1
\* longest event sequence of the seek specification
MaxSeekLen == 2

\* the longest time between two ticks of an uninterrupted playback
MaxDt == 2

\* ------------------------------------------------------- program constants
\* uint8_t programs[16]
NumChannels == 16
\* uint8_t controls[16 * 128]
NumControls == 128
\* std::fill_n(controls, 16 * 128, 255): the "unset" marker
Unset == 255
\* 0b1011: control change status nibble
StatusCC == 11
\* 0b1100: program change status nibble
StatusPC == 12
\* controller 120: all sound off
AllSoundOff == 120
\* controller 121: reset all controllers
ResetAllControllers == 121

\* ---------------------------------------------------------------- double
\* The tick interval and the clock frequency are C doubles (IEEE 754
\* binary64) and "1.0 / x" is the correctly rounded division. cls is "fin",
\* "zero", "inf" or "nan". A finite non-zero double is neg, the significand
\* hi * LimbBase + lo and the exponent e of its last bit: the value is
\* (hi * LimbBase + lo) * 2^e. A normal double has the top bit of its 53-bit
\* significand set and MinExp <= e <= MaxExp; a subnormal one has a smaller
\* significand and e = MinExp. The significand is kept in two limbs because
\* it does not fit the integers of the model checker. The sign and the
\* payload of a NaN, which no comparison of the player observes, are not
\* modelled.
\* the width of the low limb, 2^27
LimbBase == 134217728
\* the least high limb of a 53-bit significand, 2^25
LimbTop == 33554432
\* DBL_MANT_DIG
MantDig == 53
\* the exponent of the last bit of the least normal double, 2^-1022, and of
\* every subnormal one
MinExp == -1074
\* the exponent of the last bit of DBL_MAX
MaxExp == 971

Limbs(hi, lo) == [hi |-> hi, lo |-> lo]

\* x = 0
LimbZero(x) == x.hi = 0 /\ x.lo = 0

\* 2 * x
LimbDouble(x) == [hi |-> 2 * x.hi + (2 * x.lo) \div LimbBase, lo |-> (2 * x.lo) % LimbBase]

\* x / 2, rounded down
LimbHalve(x) == [hi |-> x.hi \div 2, lo |-> (x.hi % 2) * (LimbBase \div 2) + x.lo \div 2]

\* x >= y
LimbGe(x, y) == x.hi > y.hi \/ (x.hi = y.hi /\ x.lo >= y.lo)

\* x - y, for x >= y
LimbSub(x, y) ==
    IF x.lo >= y.lo THEN [hi |-> x.hi - y.hi, lo |-> x.lo - y.lo]
                    ELSE [hi |-> x.hi - y.hi - 1, lo |-> x.lo + LimbBase - y.lo]

\* x + 1
LimbInc(x) ==
    IF x.lo + 1 = LimbBase THEN [hi |-> x.hi + 1, lo |-> 0] ELSE [hi |-> x.hi, lo |-> x.lo + 1]

DblZero(neg) == [cls |-> "zero", neg |-> neg, hi |-> 0, lo |-> 0, e |-> 0]

DblInf(neg) == [cls |-> "inf", neg |-> neg, hi |-> 0, lo |-> 0, e |-> 0]

DblNaN == [cls |-> "nan", neg |-> FALSE, hi |-> 0, lo |-> 0, e |-> 0]

\* DBL_MAX
DblMax == [cls |-> "fin", neg |-> FALSE, hi |-> 2 * LimbTop - 1, lo |-> LimbBase - 1, e |-> MaxExp]

\* shift the significand m up until its top bit is set
RECURSIVE DblNormal(_, _, _)
DblNormal(neg, m, e) ==
    IF m.hi >= LimbTop \/ e <= MinExp
    THEN [cls |-> "fin", neg |-> neg, hi |-> m.hi, lo |-> m.lo, e |-> e]
    ELSE DblNormal(neg, LimbDouble(m), e - 1)

\* the double of an int n (exact: |n| < 2^31)
DblFromInt(n) ==
    IF n = 0 THEN DblZero(FALSE)
    ELSE LET a == IF n < 0 THEN 0 - n ELSE n
         IN  DblNormal(n < 0, Limbs(a \div LimbBase, a % LimbBase), 0)

\* x > 0 (false for a NaN)
DblPositive(x) == x.cls \in {"fin", "inf"} /\ ~x.neg

\* the significand m # 0 of an operand, subnormal or not, shifted up until
\* its top bit is set, with the exponent that goes with it (which is above
\* MinExp - MantDig)
RECURSIVE DivOperand(_, _)
DivOperand(m, e) ==
    IF m.hi >= LimbTop \/ e <= MinExp - MantDig THEN [m |-> m, e |-> e]
    ELSE DivOperand(LimbDouble(m), e - 1)

\* long division of r by m (r < m, 2 * r >= m or q > 0), one quotient bit at
\* a time until the quotient q has MantDig bits; r is the remainder
RECURSIVE DivBits(_, _, _)
DivBits(q, r, m) ==
    IF q.hi >= LimbTop THEN [q |-> q, r |-> r]
    ELSE LET r2 == LimbDouble(r)
             q2 == LimbDouble(q)
         IN  IF LimbGe(r2, m)
             THEN DivBits(LimbInc(q2), LimbSub(r2, m), m)
             ELSE DivBits(q2, r2, m)

\* round to nearest, ties to even: m with s more bits shifted out; half is
\* the bit below the last one kept, sticky says that something not zero lies
\* below that
RECURSIVE DivRound(_, _, _, _)
DivRound(m, s, half, sticky) ==
    IF s = 0
    THEN IF half /\ (sticky \/ m.lo % 2 = 1) THEN LimbInc(m) ELSE m
    ELSE IF LimbZero(m) THEN m
    ELSE IF sticky \/ half THEN DivRound(LimbHalve(m), s - 1, m.lo % 2 = 1, TRUE)
    ELSE DivRound(LimbHalve(m), s - 1, m.lo % 2 = 1, FALSE)

\* a / b for doubles, rounded to nearest, ties to even: 0 / 0 and inf / inf
\* are NaN, x / 0 is an infinity, x / inf a zero; a quotient below 2^-1022
\* is rounded at the last bit of the subnormals (and may become zero), one
\* above DBL_MAX is an infinity
DblDiv(a, b) ==
    LET neg == (a.neg # b.neg)
    IN  IF a.cls = "nan" \/ b.cls = "nan" THEN DblNaN
        ELSE IF a.cls = "zero" /\ b.cls = "zero" THEN DblNaN
        ELSE IF a.cls = "inf" /\ b.cls = "inf" THEN DblNaN
        ELSE IF a.cls = "zero" \/ b.cls = "inf" THEN DblZero(neg)
        ELSE IF b.cls = "zero" \/ a.cls = "inf" THEN DblInf(neg)
        ELSE LET na     == DivOperand(Limbs(a.hi, a.lo), a.e)
                 nb     == DivOperand(Limbs(b.hi, b.lo), b.e)
                 ge     == LimbGe(na.m, nb.m)
                 d      == IF ge THEN DivBits(Limbs(0, 1), LimbSub(na.m, nb.m), nb.m)
                                 ELSE DivBits(Limbs(0, 0), na.m, nb.m)
                 e      == na.e - nb.e - (IF ge THEN MantDig - 1 ELSE MantDig)
                 r2     == LimbDouble(d.r)
                 half   == LimbGe(r2, nb.m)
                 sticky == IF half THEN r2 # nb.m ELSE ~LimbZero(d.r)
                 s      == IF e >= MinExp THEN 0
                           ELSE IF MinExp - e > MantDig THEN MantDig + 1
                           ELSE MinExp - e
                 q      == DivRound(d.q, s, half, sticky)
                 carry  == q.hi >= 2 * LimbTop
                 e1     == (IF e >= MinExp THEN e ELSE MinExp) + (IF carry THEN 1 ELSE 0)
             IN  IF LimbZero(q) THEN DblZero(neg)
                 ELSE IF e1 > MaxExp THEN DblInf(neg)
                 ELSE IF carry
                 THEN [cls |-> "fin", neg |-> neg, hi |-> LimbTop, lo |-> 0, e |-> e1]
                 ELSE [cls |-> "fin", neg |-> neg, hi |-> q.hi, lo |-> q.lo, e |-> e1]

\* the literal 1.0
DblOne == DblFromInt(1)

\* the constructor's "seq_interval = 1e-3": the double nearest to 1/1000,
\* which is what the correctly rounded division gives
SeqInterval == DblDiv(DblOne, DblFromInt(1000))

\* ----------------------------------------------------------------- events
\* fmidi_event_t: type, datalen = Len(data), data; time is sqevt.time
Ev(t, ty, d) == [time |-> t, type |-> ty, data |-> d]

\* the speeds set_speed is called with
Speeds == {1, 2}

\* payloads of the playback sequences: event i carries PlayPayload(i)
PlayPayload(i) ==
    IF i % 2 = 1 THEN [type |-> "message", data |-> <<StatusPC * 16, 5>>]
                 ELSE [type |-> "message", data |-> <<StatusCC * 16 + 1, 7, 64>>]

\* non-decreasing timestamp tuples of length n over 0..MaxTime
TimeTuples(n) ==
    {ts \in [1..n -> 0..MaxTime] : \A i \in 1..n : \A j \in 1..n : i <= j => ts[i] <= ts[j]}

\* the sequences the playback specification starts from
PlaySeqs ==
    UNION {{[i \in 1..n |-> Ev(ts[i], PlayPayload(i).type, PlayPayload(i).data)] :
              ts \in TimeTuples(n)} : n \in 0..MaxLen}

\* payloads of the seek sequences: program changes and control changes on
\* channels 0 and 15 (controllers 7 and 3 on channel 0, so that a channel has
\* two controllers set, in either order of arrival), with data bytes above 127
\* to exercise the "& 127" masks,
\* a note-on, a meta event whose bytes read like a program change, and a
\* three-byte message with a program-change status
SeekPayloads ==
    { [type |-> "message", data |-> <<StatusPC * 16, 5>>],
      [type |-> "message", data |-> <<StatusPC * 16, 200>>],
      [type |-> "message", data |-> <<StatusCC * 16, 7, 64>>],
      [type |-> "message", data |-> <<StatusCC * 16, 135, 130>>],
      [type |-> "message", data |-> <<StatusCC * 16, 3, 11>>],
      [type |-> "message", data |-> <<StatusCC * 16 + 15, 121, 9>>],
      [type |-> "message", data |-> <<144, 60, 100>>],
      [type |-> "meta", data |-> <<StatusPC * 16, 9>>],
      [type |-> "message", data |-> <<StatusPC * 16 + 15, 9, 1>>] }

\* the sequences the seek specification starts from
SeekSeqs ==
    UNION {{[i \in 1..n |-> Ev(ts[i], ps[i].type, ps[i].data)] :
              ts \in TimeTuples(n), ps \in [1..n -> SeekPayloads]} : n \in 0..MaxSeekLen}

VARIABLES
    seq,        \* the event sequence of the file (fixed by fmidi_player_new)
    plr,        \* fmidi_player and its fmidi_player_context, cursor and timer
    now,        \* ev_now(loop) of the latest tick
    out,        \* events passed to the event callback by ticks since the last
                \* top-level rewind/goto_time (or since construction)
    fin_count,  \* finish callback invocations since the last top-level rewind/goto_time
    hist        \* bookkeeping about the run: see HistInit

vars == <<seq, plr, now, out, fin_count, hist>>

\* ------------------------------------------------- the sequence cursor
\* fmidi_seq_next_event(&seq, &sqevt): FALSE at the end of the sequence,
\* otherwise it stores the event at the cursor in ctx.sqevt and advances.
\* An event is named by its position in seq (sqevt.event points into it).
fmidi_seq_has_event(p) == p.pos < Len(seq)

fmidi_seq_next_event(p) ==
    IF fmidi_seq_has_event(p)
    THEN [p EXCEPT !.pos = p.pos + 1, !.sqevt = p.pos + 1]
    ELSE p

\* fmidi_seq_next_event(&seq, nullptr): advances without storing the event
fmidi_seq_skip_event(p) ==
    IF fmidi_seq_has_event(p) THEN [p EXCEPT !.pos = p.pos + 1] ELSE p

\* fmidi_seq_peek_event(&seq, &sqevt): the event at the cursor (a local sqevt)
fmidi_seq_peek_event(p) == seq[p.pos + 1]

\* fmidi_seq_rewind
fmidi_seq_rewind(p) == [p EXCEPT !.pos = 0]

\* ------------------------------------------------------------ the player
\* fmidi_player_new: the player after construction. prev_tick and sqevt are
\* left unset by the constructor and are never read before they are written
\* (have_tick and have_event guard them); 0 stands for "not yet written".
\* repeat is timer.repeat, the tick interval in seconds, a double. timer says
\* that the timer is active in the host loop, never that its due time is not
\* finite any more. alive says that the object exists: fmidi_player_free has
\* not deleted it.
fmidi_player_new ==
    [pos |-> 0, sqevt |-> 0, timepos |-> 0, speed |-> 1, prev_tick |-> 0,
     have_tick |-> FALSE, have_event |-> FALSE, cbfn |-> FALSE, finifn |-> FALSE,
     running |-> FALSE, timer |-> FALSE, never |-> FALSE, repeat |-> SeqInterval,
     alive |-> TRUE]

\* The host loop's timer (libev). ev_timer_start makes an inactive timer
\* active, due after the time it had left when it was stopped (at once, the
\* first time); ev_timer_stop makes it inactive. Neither looks at repeat,
\* except for the assertion of ev_timer_start.
ev_timer_start(p) == [p EXCEPT !.timer = TRUE]

ev_timer_stop(p) == [p EXCEPT !.timer = FALSE]

\* What the loop does to a due timer before it calls the handler: with
\* repeat = 0 the timer is a single shot and is stopped; otherwise it is
\* armed again at "at += repeat", and a due time that lies in the past (a
\* negative repeat, -inf included) is moved up to the loop time, so the timer
\* is due again at the next iteration. With repeat +inf or NaN the new due
\* time is never reached, neither after a later stop and start.
ev_timer_fire(p) ==
    IF p.repeat.cls = "zero" THEN ev_timer_stop(p)
    ELSE IF p.repeat.cls = "nan" \/ (p.repeat.cls = "inf" /\ ~p.repeat.neg)
    THEN [p EXCEPT !.never = TRUE]
    ELSE p

\* the timer is active and its handler will be called
ev_timer_due(p) == p.timer /\ ~p.never

\* the loop's own assertions: "repeat >= 0." in ev_timer_start and
\* "repeat > 0." when a due timer is armed again
ev_assert_start(p) == p.repeat.cls = "zero" \/ DblPositive(p.repeat)

ev_assert_fire(p) == p.repeat.cls = "zero" \/ DblPositive(p.repeat)

\* fmidi_player_free: the timer of a running player is taken out of the loop,
\* then the player is deleted. What is left of the record is the memory the
\* caller must not touch any more.
fmidi_player_free(p) ==
    [(IF p.running THEN ev_timer_stop(p) ELSE p) EXCEPT !.alive = FALSE]

\* mutant: start keeps the tick baseline
fmidi_player_start_keeptick(p) ==
    IF p.running THEN p
    ELSE [ev_timer_start(p) EXCEPT !.running = TRUE]

\* mutant: start forgets to set the running flag
fmidi_player_start_norun(p) ==
    IF p.running THEN p
    ELSE ev_timer_start([p EXCEPT !.have_tick = FALSE])

\* fmidi_player_start
fmidi_player_start(p) ==
    IF p.running THEN p
    ELSE [ev_timer_start([p EXCEPT !.have_tick = FALSE]) EXCEPT !.running = TRUE]

\* mutant: stop also forgets the pending look-ahead event
fmidi_player_stop_drop(p) ==
    IF ~p.running THEN p
    ELSE [ev_timer_stop([p EXCEPT !.have_tick = FALSE, !.have_event = FALSE])
             EXCEPT !.running = FALSE]

\* fmidi_player_stop
fmidi_player_stop(p) ==
    IF ~p.running THEN p
    ELSE [ev_timer_stop([p EXCEPT !.have_tick = FALSE]) EXCEPT !.running = FALSE]

\* mutant: rewind keeps the pending look-ahead event
fmidi_player_rewind_keep(p) ==
    [fmidi_seq_rewind(p) EXCEPT !.timepos = 0, !.have_tick = FALSE]

\* fmidi_player_rewind
fmidi_player_rewind(p) ==
    [fmidi_seq_rewind(p) EXCEPT !.timepos = 0, !.have_tick = FALSE, !.have_event = FALSE]

\* fmidi_player_set_speed
fmidi_player_set_speed(p, speed) == [p EXCEPT !.speed = speed]

\* fmidi_player_current_clock_frequency: 1.0 / timer.repeat, in Hz
fmidi_player_current_clock_frequency(p) == DblDiv(DblOne, p.repeat)

\* fmidi_player_set_clock_frequency: assert(freq > 0), then
\* timer.repeat = 1.0 / freq. In a build without NDEBUG a failing assert ends
\* the process (ok is FALSE and the player is as it was); in a build with
\* NDEBUG (ndebug) the assert is compiled out and every freq is stored.
fmidi_player_set_clock_frequency(p, freq, ndebug) ==
    IF ndebug \/ DblPositive(freq)
    THEN [ok |-> TRUE, p |-> [p EXCEPT !.repeat = DblDiv(DblOne, freq)]]
    ELSE [ok |-> FALSE, p |-> p]

\* fmidi_player_event_callback: b says whether cbfn is non-null
fmidi_player_event_callback(p, b) == [p EXCEPT !.cbfn = b]

\* fmidi_player_finish_callback: b says whether finifn is non-null
fmidi_player_finish_callback(p, b) == [p EXCEPT !.finifn = b]

\* ------------------------------------------------------------- goto_time
\* a callback invocation: idx is the position in seq of the event passed
\* (0 for an event built in goto_time's stack buffer), data its bytes
SeqCall(i) == [idx |-> i, data |-> seq[i].data]

SynthCall(d) == [idx |-> 0, data |-> d]

\* programs[] after std::fill_n(programs, 16, 0)
InitPrograms == [c \in 0..(NumChannels - 1) |-> 0]

\* controls[] is kept as the map of the entries written since
\* std::fill_n(controls, 16 * 128, 255); every other entry reads Unset
InitControls == [k \in {} |-> Unset]

\* controls[k]
ControlAt(controls, k) == IF k \in DOMAIN controls THEN controls[k] ELSE Unset

\* controls[k] = v
ControlPut(controls, k, v) == (k :> v) @@ controls

\* mutant: the first control change of a controller wins
ScanControls_first(controls, evt) ==
    IF /\ evt.type = "message"
       /\ (evt.data[1] \div 16) = StatusCC /\ Len(evt.data) = 3
       /\ ((evt.data[1] % 16) * NumControls + (evt.data[2] % 128)) \notin DOMAIN controls
    THEN ControlPut(controls, (evt.data[1] % 16) * NumControls + (evt.data[2] % 128),
                    (evt.data[3] % 128))
    ELSE controls

\* the body of the scan loop for one event: lines 169-181
ScanPrograms(programs, evt) ==
    IF evt.type = "message" /\ (evt.data[1] \div 16) = StatusPC /\ Len(evt.data) = 2
    THEN [programs EXCEPT ![(evt.data[1] % 16)] = (evt.data[2] % 128)]
    ELSE programs

ScanControls(controls, evt) ==
    IF /\ evt.type = "message"
       /\ ~((evt.data[1] \div 16) = StatusPC /\ Len(evt.data) = 2)
       /\ (evt.data[1] \div 16) = StatusCC /\ Len(evt.data) = 3
    THEN ControlPut(controls, (evt.data[1] % 16) * NumControls + (evt.data[2] % 128),
                    (evt.data[3] % 128))
    ELSE controls

\* mutant: the scan also passes the events at the target time
RECURSIVE GotoScan_le(_, _, _, _)
GotoScan_le(p, programs, controls, time) ==
    IF fmidi_seq_has_event(p) /\ fmidi_seq_peek_event(p).time <= time
    THEN GotoScan_le(fmidi_seq_skip_event(p),
                     ScanPrograms(programs, fmidi_seq_peek_event(p)),
                     ScanControls(controls, fmidi_seq_peek_event(p)),
                     time)
    ELSE [p |-> p, programs |-> programs, controls |-> controls]

\* the scan loop: lines 167-183
RECURSIVE GotoScan(_, _, _, _)
GotoScan(p, programs, controls, time) ==
    IF fmidi_seq_has_event(p) /\ fmidi_seq_peek_event(p).time < time
    THEN GotoScan(fmidi_seq_skip_event(p),
                  ScanPrograms(programs, fmidi_seq_peek_event(p)),
                  ScanControls(controls, fmidi_seq_peek_event(p)),
                  time)
    ELSE [p |-> p, programs |-> programs, controls |-> controls]

\* the elements of a set of numbers in ascending order
RECURSIVE Ascending(_)
Ascending(S) ==
    IF S = {} THEN <<>>
    ELSE LET m == CHOOSE x \in S : \A y \in S : x <= y
         IN  <<m>> \o Ascending(S \ {m})

\* mutant: the controller loop runs from id 127 down
SetControlIds_desc(c, controls) ==
    LET ids == Ascending({k - c * NumControls :
                            k \in {j \in DOMAIN controls :
                                     /\ j \div NumControls = c
                                     /\ ControlAt(controls, j) < 128}})
    IN  [i \in 1..Len(ids) |-> ids[Len(ids) + 1 - i]]

\* the ids the loop "for (id = 0; id < 128; ++id) if (val < 128)" of channel c
\* passes, in the order it meets them: lines 212-214
SetControlIds(c, controls) ==
    Ascending({k - c * NumControls :
                 k \in {j \in DOMAIN controls :
                          /\ j \div NumControls = c
                          /\ ControlAt(controls, j) < 128}})

\* the events sent for channel c: lines 194-221
GotoEmitChannel(c, programs, controls) ==
    LET ids == SetControlIds(c, controls)
    IN  << SynthCall(<<StatusCC * 16 + c, AllSoundOff, 0>>),
           SynthCall(<<StatusCC * 16 + c, ResetAllControllers, 0>>),
           SynthCall(<<StatusPC * 16 + c, programs[c]>>) >>
        \o [i \in 1..Len(ids) |->
              SynthCall(<<StatusCC * 16 + c, ids[i],
                          ControlAt(controls, c * NumControls + ids[i])>>)]

\* the channel loop: lines 193-222
RECURSIVE GotoEmit(_, _, _)
GotoEmit(c, programs, controls) ==
    IF c < NumChannels
    THEN GotoEmitChannel(c, programs, controls) \o GotoEmit(c + 1, programs, controls)
    ELSE <<>>

\* lines 160-183: rewind, then scan up to time
GotoSnapshot(p, time) == GotoScan(fmidi_player_rewind(p), InitPrograms, InitControls, time)

\* mutant: a seek beyond the last event leaves timepos at the last timestamp
fmidi_player_goto_time_clamp(p, time) ==
    [GotoSnapshot(p, time).p EXCEPT
        !.timepos = IF Len(seq) > 0 /\ time > seq[Len(seq)].time
                    THEN seq[Len(seq)].time ELSE time]

\* fmidi_player_goto_time: the player afterwards
fmidi_player_goto_time(p, time) == [GotoSnapshot(p, time).p EXCEPT !.timepos = time]

\* fmidi_player_goto_time: the event callback invocations it makes, in order
\* (lines 187-223)
GotoTimeCalls(p, time) ==
    IF p.cbfn
    THEN LET s == GotoSnapshot(p, time) IN GotoEmit(0, s.programs, s.controls)
    ELSE <<>>

\* ------------------------------------------------------------------ tick
\* What a callback does when it calls back into the player: op with its
\* argument (time is read by "goto" only); "restart" is rewind then start.
\* The result is the player when the call returns.
NoCall == [k |-> 0, op |-> "none", time |-> 0]

CallOp(p, op, time) ==
    CASE op = "start"   -> fmidi_player_start(p)
      [] op = "stop"    -> fmidi_player_stop(p)
      [] op = "rewind"  -> fmidi_player_rewind(p)
      [] op = "restart" -> fmidi_player_start(fmidi_player_rewind(p))
      [] op = "goto"    -> fmidi_player_goto_time(p, time)
      [] OTHER          -> p

\* mutant: without a callback the loop leaves the due events in the cursor
RECURSIVE Drain_cbonly(_, _, _, _)
Drain_cbonly(d, timepos, cbfn, cb) ==
    IF cbfn /\ d.more /\ timepos > seq[d.p.sqevt].time
    THEN LET n1   == d.n + 1
             p1   == IF n1 = cb.k THEN CallOp(d.p, cb.op, cb.time) ELSE d.p
             ok   == fmidi_seq_has_event(p1)
         IN  Drain_cbonly([p |-> fmidi_seq_next_event(p1), more |-> ok, have_event |-> ok,
                           n |-> n1, log |-> Append(d.log, SeqCall(d.p.sqevt)),
                           consumed |-> d.consumed + 1,
                           views |-> d.views \cup {<<d.p.running, d.p.timer>>}],
                          timepos, cbfn, cb)
    ELSE d

\* mutant: the loop also delivers the events whose timestamp equals timepos
RECURSIVE Drain_ge(_, _, _, _)
Drain_ge(d, timepos, cbfn, cb) ==
    IF d.more /\ timepos >= seq[d.p.sqevt].time
    THEN LET n1   == IF cbfn THEN d.n + 1 ELSE d.n
             p1   == IF cbfn /\ n1 = cb.k THEN CallOp(d.p, cb.op, cb.time) ELSE d.p
             log1 == IF cbfn THEN Append(d.log, SeqCall(d.p.sqevt)) ELSE d.log
             ok   == fmidi_seq_has_event(p1)
         IN  Drain_ge([p |-> fmidi_seq_next_event(p1), more |-> ok, have_event |-> ok,
                    n |-> n1, log |-> log1, consumed |-> d.consumed + 1,
                    views |-> IF cbfn THEN d.views \cup {<<d.p.running, d.p.timer>>}
                                      ELSE d.views],
                   timepos, cbfn, cb)
    ELSE d

\* The drain loop, lines 53-58. d holds the locals more and have_event, the
\* player p (ctx and the cursor, which callbacks may change), the number n of
\* callback invocations the loop made so far in this tick, their log, and the
\* <<running, timer active>> pairs the callbacks found on entry. timepos and
\* cbfn are the tick's locals (lines 39, 42); cb is the callback's behaviour:
\* on its cb.k-th invocation of this tick it calls cb.op on the player.
RECURSIVE Drain(_, _, _, _)
Drain(d, timepos, cbfn, cb) ==
    IF d.more /\ timepos > seq[d.p.sqevt].time
    THEN LET n1   == IF cbfn THEN d.n + 1 ELSE d.n
             p1   == IF cbfn /\ n1 = cb.k THEN CallOp(d.p, cb.op, cb.time) ELSE d.p
             log1 == IF cbfn THEN Append(d.log, SeqCall(d.p.sqevt)) ELSE d.log
             ok   == fmidi_seq_has_event(p1)
         IN  Drain([p |-> fmidi_seq_next_event(p1), more |-> ok, have_event |-> ok,
                    n |-> n1, log |-> log1, consumed |-> d.consumed + 1,
                    views |-> IF cbfn THEN d.views \cup {<<d.p.running, d.p.timer>>}
                                      ELSE d.views],
                   timepos, cbfn, cb)
    ELSE d

\* mutant: the tick counts one nominal interval instead of the elapsed time
fmidi_player_tick_nominal(p, tnow, cb, fin) ==
    LET timepos == IF p.have_tick THEN p.timepos + p.speed * 1
                                  ELSE p.timepos
        more0   == p.have_event \/ fmidi_seq_has_event(p)
        p0      == IF p.have_event THEN p ELSE fmidi_seq_next_event(p)
        d       == Drain([p |-> p0, more |-> more0,
                          have_event |-> IF more0 THEN TRUE ELSE p.have_event,
                          n |-> 0, log |-> <<>>, consumed |-> 0, views |-> {}],
                         timepos, p.cbfn, cb)
        p1      == [d.p EXCEPT !.have_event = d.have_event, !.have_tick = TRUE,
                               !.prev_tick = tnow, !.timepos = timepos]
        p2      == IF d.more THEN p1 ELSE [ev_timer_stop(p1) EXCEPT !.running = FALSE]
        fired   == ~d.more /\ p2.finifn
        p3      == IF fired THEN CallOp(p2, fin.op, fin.time) ELSE p2
    IN  [p |-> p3, log |-> d.log, n |-> d.n,
         consumed |-> d.consumed, fired |-> fired, timepos |-> timepos,
         views |-> IF fired THEN d.views \cup {<<p2.running, p2.timer>>} ELSE d.views]

\* mutant: at exhaustion the tick stops the player without calling finifn
fmidi_player_tick_nofin(p, tnow, cb, fin) ==
    LET timepos == IF p.have_tick THEN p.timepos + p.speed * (tnow - p.prev_tick)
                                  ELSE p.timepos
        more0   == p.have_event \/ fmidi_seq_has_event(p)
        p0      == IF p.have_event THEN p ELSE fmidi_seq_next_event(p)
        d       == Drain([p |-> p0, more |-> more0,
                          have_event |-> IF more0 THEN TRUE ELSE p.have_event,
                          n |-> 0, log |-> <<>>, consumed |-> 0, views |-> {}],
                         timepos, p.cbfn, cb)
        p1      == [d.p EXCEPT !.have_event = d.have_event, !.have_tick = TRUE,
                               !.prev_tick = tnow, !.timepos = timepos]
        p2      == IF d.more THEN p1 ELSE [ev_timer_stop(p1) EXCEPT !.running = FALSE]
    IN  [p |-> p2, log |-> d.log, n |-> d.n,
         consumed |-> d.consumed, fired |-> FALSE, timepos |-> timepos,
         views |-> d.views]

\* mutant: the tick writes its locals back after the finish callback returned
fmidi_player_tick_latewrite(p, tnow, cb, fin) ==
    LET timepos == IF p.have_tick THEN p.timepos + p.speed * (tnow - p.prev_tick)
                                  ELSE p.timepos
        more0   == p.have_event \/ fmidi_seq_has_event(p)
        p0      == IF p.have_event THEN p ELSE fmidi_seq_next_event(p)
        d       == Drain([p |-> p0, more |-> more0,
                          have_event |-> IF more0 THEN TRUE ELSE p.have_event,
                          n |-> 0, log |-> <<>>, consumed |-> 0, views |-> {}],
                         timepos, p.cbfn, cb)
        p2      == IF d.more THEN d.p ELSE [ev_timer_stop(d.p) EXCEPT !.running = FALSE]
        fired   == ~d.more /\ p2.finifn
        p3      == IF fired THEN CallOp(p2, fin.op, fin.time) ELSE p2
    IN  [p |-> [p3 EXCEPT !.have_event = d.have_event, !.have_tick = TRUE,
                          !.prev_tick = tnow, !.timepos = timepos],
         log |-> d.log, n |-> d.n,
         consumed |-> d.consumed, fired |-> fired, timepos |-> timepos,
         views |-> IF fired THEN d.views \cup {<<p2.running, p2.timer>>} ELSE d.views]

\* mutant: the tick reads the cursor even when an event is pending
fmidi_player_tick_reread(p, tnow, cb, fin) ==
    LET timepos == IF p.have_tick THEN p.timepos + p.speed * (tnow - p.prev_tick)
                                  ELSE p.timepos
        more0   == fmidi_seq_has_event(p)
        p0      == fmidi_seq_next_event(p)
        d       == Drain([p |-> p0, more |-> more0,
                          have_event |-> IF more0 THEN TRUE ELSE p.have_event,
                          n |-> 0, log |-> <<>>, consumed |-> 0, views |-> {}],
                         timepos, p.cbfn, cb)
        p1      == [d.p EXCEPT !.have_event = d.have_event, !.have_tick = TRUE,
                               !.prev_tick = tnow, !.timepos = timepos]
        p2      == IF d.more THEN p1 ELSE [ev_timer_stop(p1) EXCEPT !.running = FALSE]
        fired   == ~d.more /\ p2.finifn
        p3      == IF fired THEN CallOp(p2, fin.op, fin.time) ELSE p2
    IN  [p |-> p3, log |-> d.log, n |-> d.n,
         consumed |-> d.consumed, fired |-> fired, timepos |-> timepos,
         views |-> IF fired THEN d.views \cup {<<p2.running, p2.timer>>} ELSE d.views]

\* fmidi_player_tick at loop time tnow; fin is what the finish callback calls.
\* Returns the player afterwards, the event-callback invocations made (log),
\* their number n at the top level, the number of events taken from the
\* look-ahead slot (consumed), whether the finish callback ran (fired), and the
\* <<running, timer active>> pairs the callbacks found on entry (views).
fmidi_player_tick(p, tnow, cb, fin) ==
    LET timepos == IF p.have_tick THEN p.timepos + p.speed * (tnow - p.prev_tick)
                                  ELSE p.timepos
        more0   == p.have_event \/ fmidi_seq_has_event(p)
        p0      == IF p.have_event THEN p ELSE fmidi_seq_next_event(p)
        d       == Drain([p |-> p0, more |-> more0,
                          have_event |-> IF more0 THEN TRUE ELSE p.have_event,
                          n |-> 0, log |-> <<>>, consumed |-> 0, views |-> {}],
                         timepos, p.cbfn, cb)
        p1      == [d.p EXCEPT !.have_event = d.have_event, !.have_tick = TRUE,
                               !.prev_tick = tnow, !.timepos = timepos]
        p2      == IF d.more THEN p1 ELSE [ev_timer_stop(p1) EXCEPT !.running = FALSE]
        fired   == ~d.more /\ p2.finifn
        p3      == IF fired THEN CallOp(p2, fin.op, fin.time) ELSE p2
    IN  [p |-> p3, log |-> d.log, n |-> d.n,
         consumed |-> d.consumed, fired |-> fired, timepos |-> timepos,
         views |-> IF fired THEN d.views \cup {<<p2.running, p2.timer>>} ELSE d.views]

\* --------------------------------------------------------- specification
\* goto_time targets: up to one past the last possible timestamp
SeekTimes == 0..(MaxTime + 1)

\* what the event callback may do in one tick: nothing, or one call into the
\* player on its k-th invocation of that tick
CbChoices ==
    {NoCall}
    \cup {[k |-> k, op |-> o, time |-> 0] : k \in 1..MaxLen, o \in {"start", "stop", "rewind"}}
    \cup {[k |-> k, op |-> "goto", time |-> t] : k \in 1..MaxLen, t \in SeekTimes}

\* what the finish callback may do
FinChoices ==
    {NoCall}
    \cup {[k |-> 0, op |-> o, time |-> 0] : o \in {"start", "rewind", "restart"}}
    \cup {[k |-> 0, op |-> "goto", time |-> t] : t \in SeekTimes}

\* Bookkeeping, not program state:
\*   last_op   the latest of the operations start, stop, tick, rewind and goto
\*             ("new" before the first); the setters leave it alone
\*   cb_paired every callback so far found running equal to the timer's activity
\*             on entry
\*   base      how the current run began: "new", "rewind" or "goto" (at seekT),
\*             set by a top-level rewind/goto_time or one made by the finish callback
\*   seek_cb   that goto_time found an event callback registered
\*   nreent    calls made by callbacks into the player so far
\*   started   start() has been called
\*   dirty     the event callback called rewind/goto_time since the run began
\*   cb_op, cb_time, cb_after   the call the event callback made in the latest
\*             tick, and the number of event callbacks that followed it in that tick
\*   fin_op    the call the finish callback made in the latest tick
\*   freq      the argument of the latest set_clock_frequency (0 before the first)
\*   ndebug    the build defines NDEBUG: assert() expands to nothing
\*   n0, tp0   in an uninterrupted playback: the loop time of the first tick
\*             and timepos when it began (0 otherwise)
\*   pend      the event the look-ahead slot held when the latest tick began
\*             (its position in seq; 0 if none, or if the latest operation
\*             was not a tick)
\*   cb_gap    since the run began, a tick took an event from the look-ahead
\*             slot while no event callback was registered
\*   fin_reg   in an uninterrupted playback: a finish callback was registered
\*             when the latest tick began
HistInit ==
    [last_op |-> "new", base |-> "new", seekT |-> 0, seek_cb |-> FALSE, nreent |-> 0, started |-> FALSE,
     dirty |-> FALSE, cb_op |-> "none", cb_time |-> 0, cb_after |-> 0,
     fin_op |-> "none", cb_paired |-> TRUE, freq |-> DblZero(FALSE), pend |-> 0,
     n0 |-> 0, tp0 |-> 0, cb_gap |-> FALSE, fin_reg |-> FALSE, ndebug |-> FALSE]

HistOp(h, name) ==
    [h EXCEPT !.last_op = name, !.cb_op = "none", !.cb_time = 0, !.cb_after = 0,
              !.fin_op = "none", !.pend = 0]

HistRun(h, base, time) ==
    [h EXCEPT !.base = base, !.seekT = time, !.seek_cb = (base = "goto" /\ plr.cbfn),
              !.dirty = FALSE, !.cb_gap = FALSE]

InitWith(seqs) ==
    /\ seq \in seqs
    /\ plr = fmidi_player_new
    /\ now = 0
    /\ out = <<>>
    /\ fin_count = 0
    /\ hist = HistInit

Init == InitWith(PlaySeqs)

\* The operations are called on a player that exists: after
\* fmidi_player_free the caller holds a dangling pointer and calls nothing.
Start ==
    /\ plr.alive
    /\ plr' = fmidi_player_start(plr)
    /\ hist' = [HistOp(hist, "start") EXCEPT !.started = TRUE]
    /\ UNCHANGED <<seq, now, out, fin_count>>

Stop ==
    /\ plr.alive
    /\ plr' = fmidi_player_stop(plr)
    /\ hist' = HistOp(hist, "stop")
    /\ UNCHANGED <<seq, now, out, fin_count>>

Rewind ==
    /\ plr.alive
    /\ plr' = fmidi_player_rewind(plr)
    /\ hist' = HistRun(HistOp(hist, "rewind"), "rewind", 0)
    /\ out' = <<>>
    /\ fin_count' = 0
    /\ UNCHANGED <<seq, now>>

GotoTime ==
    \E time \in SeekTimes :
        /\ plr.alive
        /\ plr' = fmidi_player_goto_time(plr, time)
        /\ hist' = HistRun(HistOp(hist, "goto"), "goto", time)
        /\ out' = <<>>
        /\ fin_count' = 0
        /\ UNCHANGED <<seq, now>>

SetSpeed ==
    \E speed \in Speeds :
        /\ plr.alive
        /\ plr' = fmidi_player_set_speed(plr, speed)
        /\ UNCHANGED <<seq, now, out, fin_count, hist>>

\* The callbacks are registered, replaced and cleared at any time.
SetEventCallback ==
    \E b \in BOOLEAN :
        /\ plr.alive
        /\ plr' = fmidi_player_event_callback(plr, b)
        /\ UNCHANGED <<seq, now, out, fin_count, hist>>

SetFinishCallback ==
    \E b \in BOOLEAN :
        /\ plr.alive
        /\ plr' = fmidi_player_finish_callback(plr, b)
        /\ UNCHANGED <<seq, now, out, fin_count, hist>>

\* The timer is due at loop time tnow: the loop arms or stops it and runs the
\* tick handler, the callbacks behaving as cb and fin say.
TickCore(tnow, cb, fin, track) ==
    LET r      == fmidi_player_tick(ev_timer_fire(plr), tnow, cb, fin)
        cbdid  == cb.op # "none"
        findid == fin.op # "none"
        cbseek == cbdid /\ cb.op \in {"rewind", "goto"}
        finrun == findid /\ fin.op \in {"rewind", "restart", "goto"}
        h1     == [hist EXCEPT !.last_op = "tick",
                      !.nreent = @ + (IF cbdid \/ findid THEN 1 ELSE 0),
                      !.dirty = @ \/ cbseek,
                      !.cb_op = cb.op, !.cb_time = cb.time,
                      !.cb_after = IF cbdid THEN r.n - cb.k ELSE 0,
                      !.fin_op = fin.op,
                      !.pend = IF plr.have_event THEN plr.sqevt ELSE 0,
                      !.cb_gap = @ \/ (~plr.cbfn /\ r.consumed > 0),
                      !.fin_reg = track /\ plr.finifn,
                      !.n0 = IF track /\ ~plr.have_tick THEN tnow ELSE @,
                      !.tp0 = IF track /\ ~plr.have_tick THEN plr.timepos ELSE @,
                      !.cb_paired = @ /\ (\A v \in r.views : v[1] = v[2])]
    IN  /\ findid => r.fired
        /\ plr' = r.p
        /\ now' = tnow
        /\ hist' = IF finrun
                   THEN HistRun(h1, IF fin.op = "goto" THEN "goto" ELSE "rewind", fin.time)
                   ELSE h1
        /\ out' = IF finrun THEN <<>> ELSE out \o r.log
        /\ fin_count' = IF finrun THEN 0
                        ELSE IF cbseek THEN (IF r.fired THEN 1 ELSE 0)
                        ELSE fin_count + (IF r.fired THEN 1 ELSE 0)
        /\ UNCHANGED seq

TickBy(tnow, cb, fin) == TickCore(tnow, cb, fin, FALSE)

\* fmidi_player_free: the last call made on the player
Free ==
    /\ plr.alive
    /\ plr' = fmidi_player_free(plr)
    /\ hist' = HistOp(hist, "free")
    /\ UNCHANGED <<seq, now, out, fin_count>>

\* The host loop runs the tick handler of an active timer, at a later loop
\* time; the callbacks do not call back into the player.
Tick ==
    /\ ev_timer_due(plr)
    /\ \E tnow \in (now + 1)..MaxNow : TickBy(tnow, NoCall, NoCall)

\* The calls the callbacks may make in a tick that, left alone, makes n event
\* callbacks: none once MaxReent calls have been made.
TickCbChoices(n) ==
    IF hist.nreent < MaxReent THEN {cb \in CbChoices : cb.k <= n} ELSE {NoCall}

TickFinChoices(cb) ==
    IF hist.nreent < MaxReent /\ cb.op = "none" THEN FinChoices ELSE {NoCall}

\* A tick whose callbacks may call back into the player.
TickReent ==
    /\ ev_timer_due(plr)
    /\ \E tnow \in (now + 1)..MaxNow :
       \E cb \in TickCbChoices(fmidi_player_tick(plr, tnow, NoCall, NoCall).n) :
       \E fin \in TickFinChoices(cb) : TickBy(tnow, cb, fin)

Next ==
    \/ Start
    \/ Stop
    \/ Rewind
    \/ GotoTime
    \/ SetEventCallback
    \/ SetFinishCallback
    \/ Tick

Spec == Init /\ [][Next]_vars

\* The player with callbacks that call back into it; here the seeks are the
\* ones the callbacks make and the speed is chosen before the first start.
NextReent ==
    \/ Start
    \/ Stop
    \/ Rewind
    \/ SetEventCallback
    \/ SetFinishCallback
    \/ TickReent

SpecReent == Init /\ [][NextReent]_vars

\* ------------------------------------------------------------------ claims
\* the number of events the cursor has given out and the look-ahead slot no
\* longer holds
Delivered == plr.pos - (IF plr.have_event THEN 1 ELSE 0)

\* the number of events with a timestamp below t
CountBefore(t) == Cardinality({i \in 1..Len(seq) : seq[i].time < t})

\* the time the current run began at: the target of its goto_time, else 0
RunStart == IF hist.base = "goto" THEN hist.seekT ELSE 0

\* the callback invocations for the events a+1 .. b of the sequence, in order
SeqCalls(a, b) == [i \in 1..(b - a) |-> SeqCall(a + i)]

\* the callback log holds events the cursor has given out, in sequence order,
\* none of them twice
InOrder ==
    /\ \A i \in 1..Len(out) : out[i].idx \in 1..Delivered /\ out[i] = SeqCall(out[i].idx)
    /\ \A i \in 1..(Len(out) - 1) : out[i].idx < out[i + 1].idx

\* C1: without rewind or goto_time, under any interleaving of tick, start,
\* stop and callback registrations, the event callback has received events in
\* sequence order, none twice, and, unless a tick consumed events while no
\* callback was registered, exactly the events the cursor gave out, starting
\* with the first.
C1_OrderPreserved ==
    (hist.base = "new" /\ ~hist.dirty) =>
        /\ InOrder
        /\ ~hist.cb_gap => out = SeqCalls(0, Delivered)

\* C1 witness: the last event was delivered by the fourth tick, after an
\* earlier tick had delivered the first (a stop and start in between costs one
\* tick, which does not advance timepos).
C1_Witness ==
    /\ hist.base = "new" /\ plr.cbfn /\ ~hist.cb_gap /\ hist.last_op = "tick" /\ now = MaxNow
    /\ Len(seq) = 2 /\ seq[1].time < seq[2].time
    /\ Len(out) = 2 /\ plr.timepos = seq[2].time + 1 /\ plr.speed = 1

\* C2: the finish callback runs at most once between two rewind/goto_time calls.
C2_FinishOncePerRun == fin_count <= 1

\* the callbacks made by the goto_time call that began the current run: they
\* depend on the sequence, the target time and the registration only
SeekCalls ==
    IF hist.base = "goto"
    THEN GotoTimeCalls([plr EXCEPT !.cbfn = hist.seek_cb], hist.seekT)
    ELSE <<>>

\* C3: goto_time(T) passes no event of the sequence to the callback and leaves
\* timepos = T and the cursor at the first event with timestamp >= T, nothing
\* pending; the ticks that follow deliver exactly the events from there on, in
\* order; and after every tick the cursor stands where playback from 0 stands
\* at the same timepos: the events with timestamp < timepos are behind it.
C3_GotoTimeCursor ==
    /\ hist.last_op = "goto" =>
          /\ plr.timepos = hist.seekT
          /\ plr.pos = CountBefore(hist.seekT)
          /\ ~plr.have_event
          /\ out = <<>>
          /\ LET calls == SeekCalls IN \A i \in 1..Len(calls) : calls[i].idx = 0
    /\ (hist.base = "goto" /\ ~hist.dirty /\ ~hist.cb_gap) =>
          out = SeqCalls(CountBefore(hist.seekT), Delivered)
    /\ (hist.base \in {"new", "goto"} /\ ~hist.dirty /\ hist.last_op = "tick") =>
          Delivered = CountBefore(plr.timepos)

\* C3 witness: after goto_time(1) skipped an event, ticks delivered the next one
C3_Witness ==
    /\ hist.base = "goto" /\ hist.seekT = 1 /\ plr.cbfn
    /\ CountBefore(1) >= 1 /\ Len(out) >= 1 /\ hist.last_op = "tick"

\* ---- what the sequence says about a channel before time T
\* the positions of the program changes on channel c with timestamp < T
PCsBefore(c, T) ==
    {i \in 1..Len(seq) : /\ seq[i].time < T /\ seq[i].type = "message"
                         /\ Len(seq[i].data) = 2
                         /\ seq[i].data[1] = StatusPC * 16 + c}

\* the positions of the control changes on channel c with timestamp < T
CCsBefore(c, T) ==
    {i \in 1..Len(seq) : /\ seq[i].time < T /\ seq[i].type = "message"
                         /\ Len(seq[i].data) = 3
                         /\ seq[i].data[1] = StatusCC * 16 + c}

\* the latest position of a non-empty set of positions (seq is in time order)
LastOf(S) == CHOOSE i \in S : \A j \in S : j <= i

\* the program of the last program change on c before T, 0 without one
LastProgram(c, T) ==
    IF PCsBefore(c, T) = {} THEN 0 ELSE seq[LastOf(PCsBefore(c, T))].data[2] % 128

\* the positions of the control changes of controller id on c before T
CCsOf(c, id, T) == {i \in CCsBefore(c, T) : seq[i].data[2] % 128 = id}

\* the callbacks of a sequence of callbacks that are on channel c
OnChannel(calls, c) == SelectSeq(calls, LAMBDA x : x.data[1] % 16 = c)

\* ---- a receiver that records the last program of each channel (0 before
\* any program change) and the last value of each controller, 7 bits each
RecvInit == [prog |-> [c \in 0..(NumChannels - 1) |-> 0], ctl |-> <<>>]

Recv(r, d) ==
    IF Len(d) = 2 /\ d[1] \div 16 = StatusPC
    THEN [r EXCEPT !.prog[d[1] % 16] = d[2] % 128]
    ELSE IF Len(d) = 3 /\ d[1] \div 16 = StatusCC
         THEN [r EXCEPT !.ctl = ControlPut(r.ctl, (d[1] % 16) * NumControls + (d[2] % 128),
                                           d[3] % 128)]
         ELSE r

\* the receiver after the messages i..Len(msgs) of msgs
RECURSIVE RecvAll(_, _, _)
RecvAll(r, msgs, i) ==
    IF i > Len(msgs) THEN r ELSE RecvAll(Recv(r, msgs[i]), msgs, i + 1)

\* the bytes of the messages of the sequence with timestamp < T, in order
MessagesBefore(T) ==
    LET evs == SelectSeq(seq, LAMBDA e : e.time < T /\ e.type = "message")
    IN  [i \in 1..Len(evs) |-> evs[i].data]

\* all sound off and reset all controllers, value 0, on every channel
RECURSIVE ResetMessages(_)
ResetMessages(c) ==
    IF c < NumChannels
    THEN << <<StatusCC * 16 + c, AllSoundOff, 0>>,
            <<StatusCC * 16 + c, ResetAllControllers, 0>> >> \o ResetMessages(c + 1)
    ELSE <<>>

\* the receiver after all sound off and reset all controllers on every channel
RecvReset == RecvAll(RecvInit, ResetMessages(0), 1)

\* C4 as stated: after goto_time(T) with a callback registered, a receiver of
\* the synthesized events is in the state of a receiver of every event with
\* timestamp < T.
C4_ReceiverSameState ==
    (hist.base = "goto" /\ hist.seek_cb) =>
        LET calls == SeekCalls
        IN  RecvAll(RecvInit, [i \in 1..Len(calls) |-> calls[i].data], 1)
              = RecvAll(RecvInit, MessagesBefore(hist.seekT), 1)

\* C4: after goto_time(T) with a callback registered, on every channel c the
\* events synthesized after the two leading control changes (120 and 121) are
\* one program change carrying the 7-bit program of the last program change on
\* c before T (0 without one) and, for exactly the controllers that have a
\* control change on c before T, one control change carrying the 7-bit value of
\* the last of them; a receiver of the synthesized events is in the state of a
\* receiver of control changes 120 = 0 and 121 = 0 on every channel followed
\* by every event with timestamp < T.
C4_SnapshotValues ==
    (hist.base = "goto" /\ hist.seek_cb) =>
        LET calls == SeekCalls
            T == hist.seekT
        IN  /\ \A c \in 0..(NumChannels - 1) :
                 LET blk == OnChannel(calls, c)
                     rest == SubSeq(blk, 3, Len(blk))
                     pcs == {i \in 1..Len(rest) : rest[i].data[1] \div 16 = StatusPC}
                     ccs == {i \in 1..Len(rest) : rest[i].data[1] \div 16 = StatusCC}
                 IN  /\ Len(blk) >= 3
                     /\ pcs \cup ccs = 1..Len(rest)
                     /\ Cardinality(pcs) = 1
                     /\ \A i \in pcs : rest[i].data = <<StatusPC * 16 + c, LastProgram(c, T)>>
                     /\ \A i \in ccs :
                          /\ Len(rest[i].data) = 3
                          /\ CCsOf(c, rest[i].data[2], T) # {}
                          /\ rest[i].data[3] =
                               seq[LastOf(CCsOf(c, rest[i].data[2], T))].data[3] % 128
                          /\ \A j \in ccs : rest[j].data[2] = rest[i].data[2] => j = i
                     /\ \A k \in CCsBefore(c, T) :
                          \E i \in ccs : rest[i].data[2] = seq[k].data[2] % 128
            /\ RecvAll(RecvInit, [i \in 1..Len(calls) |-> calls[i].data], 1)
                 = RecvAll(RecvReset, MessagesBefore(T), 1)

\* C4 witness: goto_time(2) over two control changes of controller 7 on
\* channel 0, the second with bytes above 127, synthesizes the second value
C4_Witness ==
    /\ hist.last_op = "goto" /\ hist.seek_cb /\ hist.seekT = 2
    /\ Len(seq) = 2 /\ seq[2].time < 2
    /\ seq[1].data = <<StatusCC * 16, 7, 64>> /\ seq[2].data = <<StatusCC * 16, 135, 130>>
    /\ LET calls == SeekCalls
       IN  \E i \in 1..Len(calls) : calls[i].data = <<StatusCC * 16, 7, 2>>

\* C5: the callbacks of goto_time come channel by channel, 0 to 15, and on each
\* channel control change 120 = 0, control change 121 = 0, one program change,
\* then control changes in strictly ascending controller id; they are 48 plus
\* the number of controllers set before T, every byte after the status byte is
\* in 0..127; without a registered callback goto_time calls nothing and still
\* leaves timepos = T and the cursor at the first event with timestamp >= T.
C5_EmissionOrder ==
    /\ (hist.base = "goto" /\ hist.seek_cb) =>
         LET calls == SeekCalls
             T == hist.seekT
             set == UNION {{<<c, seq[k].data[2] % 128>> : k \in CCsBefore(c, T)} :
                             c \in 0..(NumChannels - 1)}
         IN  /\ Len(calls) = 3 * NumChannels + Cardinality(set)
             /\ \A i \in 1..(Len(calls) - 1) :
                  calls[i].data[1] % 16 <= calls[i + 1].data[1] % 16
             /\ \A i \in 1..Len(calls) :
                  \A b \in 2..Len(calls[i].data) : calls[i].data[b] \in 0..127
             /\ \A c \in 0..(NumChannels - 1) :
                  LET blk == OnChannel(calls, c)
                  IN  /\ Len(blk) >= 3
                      /\ blk[1].data = <<StatusCC * 16 + c, AllSoundOff, 0>>
                      /\ blk[2].data = <<StatusCC * 16 + c, ResetAllControllers, 0>>
                      /\ Len(blk[3].data) = 2 /\ blk[3].data[1] = StatusPC * 16 + c
                      /\ \A i \in 4..Len(blk) :
                           /\ Len(blk[i].data) = 3 /\ blk[i].data[1] = StatusCC * 16 + c
                           /\ i > 4 => blk[i - 1].data[2] < blk[i].data[2]
    /\ (hist.last_op = "goto" /\ ~hist.seek_cb) =>
         /\ SeekCalls = <<>> /\ out = <<>>
         /\ plr.timepos = hist.seekT /\ plr.pos = CountBefore(hist.seekT)

\* C5 witness: goto_time(2) over controller 7 and then controller 3 set on
\* channel 0 made 50 callbacks, controller 3 before controller 7
C5_Witness ==
    /\ hist.last_op = "goto" /\ hist.seek_cb /\ hist.seekT = 2
    /\ Len(seq) = 2 /\ seq[2].time < 2
    /\ seq[1].data = <<StatusCC * 16, 7, 64>> /\ seq[2].data = <<StatusCC * 16, 3, 11>>
    /\ LET calls == SeekCalls
       IN  /\ Len(calls) = 3 * NumChannels + 2
           /\ calls[4].data = <<StatusCC * 16, 3, 11>>
           /\ calls[5].data = <<StatusCC * 16, 7, 64>>

\* C5 witness on the last channel: controller 121 is set after its reset
C5_WitnessLast ==
    /\ hist.last_op = "goto" /\ hist.seek_cb /\ hist.seekT = 2
    /\ Len(seq) = 2 /\ seq[2].time < 2
    /\ LET calls == SeekCalls
       IN  /\ Len(calls) = 3 * NumChannels + 2
           /\ calls[4].data = <<StatusCC * 16, 7, 64>>
           /\ calls[Len(calls)].data = <<StatusCC * 16 + 15, ResetAllControllers, 9>>

\* C5 witness without a callback: goto_time passed an event in silence and
\* stopped before the next
C5_WitnessSilent ==
    /\ hist.last_op = "goto" /\ ~hist.seek_cb /\ hist.seekT = MaxTime
    /\ plr.pos = 1 /\ Len(seq) = 2

\* C6: rewind() leaves timepos 0 and the player as fmidi_player_new made it,
\* up to the speed, the callbacks and the running state (prev_tick and sqevt
\* are not read while have_tick and have_event are false); and the ticks that
\* follow deliver the events from the first one on, in order, as the first
\* playback does (C1).
C6_RewindResets ==
    /\ hist.last_op = "rewind" =>
          /\ plr.timepos = 0
          /\ [plr EXCEPT !.prev_tick = 0, !.sqevt = 0] =
                [fmidi_player_new EXCEPT !.speed = plr.speed, !.cbfn = plr.cbfn,
                                         !.finifn = plr.finifn, !.running = plr.running,
                                         !.timer = plr.timer]
    /\ (hist.base = "rewind" /\ ~hist.dirty /\ ~hist.cb_gap) => out = SeqCalls(0, Delivered)

\* C6 witness: after a rewind, the ticks up to the last instant delivered both
\* events from the first one on and the sequence ended
C6_Witness ==
    /\ hist.base = "rewind" /\ plr.cbfn /\ hist.last_op = "tick" /\ now = MaxNow
    /\ Len(seq) = 2 /\ out = SeqCalls(0, 2) /\ fin_count = 1 /\ ~plr.running

\* C7: start() after start() changes nothing, stop() after stop() changes
\* nothing; start() leaves the player running with its timer active, stop()
\* leaves it stopped with its timer inactive, and neither touches timepos, the
\* cursor or the look-ahead slot.
C7_StartStopIdempotent ==
    LET s1 == fmidi_player_start(plr)
        t1 == fmidi_player_stop(plr)
    IN  /\ fmidi_player_start(s1) = s1
        /\ s1.running /\ s1.timer
        /\ [s1 EXCEPT !.running = plr.running, !.timer = plr.timer,
                      !.have_tick = plr.have_tick] = plr
        /\ fmidi_player_stop(t1) = t1
        /\ ~t1.running /\ ~t1.timer
        /\ [t1 EXCEPT !.running = plr.running, !.timer = plr.timer,
                      !.have_tick = plr.have_tick] = plr
        /\ hist.last_op = "start" => fmidi_player_start(plr) = plr
        /\ hist.last_op = "stop" => fmidi_player_stop(plr) = plr

\* C7 witness: start() was called on a player stopped in mid-sequence, with an
\* event delivered and another pending
C7_Witness ==
    /\ hist.last_op = "start" /\ plr.running /\ plr.have_event /\ Len(out) = 1
    /\ fmidi_player_start(plr) = plr

\* C8 as stated: in every state of a player that was not freed the running
\* flag equals the timer's registration, and so did it whenever an event or
\* finish callback was entered; the host loop ticks registered timers only, so
\* none fires between stop() or exhaustion and the next start().
C8_RunningIffTimer ==
    plr.alive =>
        /\ plr.running = plr.timer
        /\ hist.cb_paired
        /\ hist.last_op = "stop" => ~plr.timer
        /\ hist.last_op = "start" => plr.timer

\* C8, the stuck player: after set_clock_frequency(+inf) the interval is 0,
\* the loop stopped the single-shot timer at its first tick and the player,
\* with an event still to play, goes on calling itself running
C8_RunningWithoutTimer ==
    /\ plr.alive /\ ~hist.ndebug /\ hist.last_op = "tick"
    /\ plr.running /\ ~plr.timer /\ plr.repeat = DblZero(FALSE)
    /\ plr.pos <= Len(seq) /\ plr.have_event

\* C8 with the interval the constructor sets (or any interval above 0 that
\* is finite): the running flag equals the timer's registration in every
\* state and at every entry of a callback, whatever the callbacks call
C8_PeriodicTimer ==
    (plr.repeat = SeqInterval) =>
        /\ plr.running = plr.timer
        /\ hist.cb_paired
        /\ hist.last_op = "stop" => ~plr.timer
        /\ hist.last_op = "start" => plr.timer

\* C8 with the constructor's interval: the event callback stopped the player
\* in mid-sequence
C8_Witness ==
    /\ hist.last_op = "tick" /\ hist.cb_op = "stop"
    /\ ~plr.running /\ ~plr.timer /\ plr.have_event /\ Len(out) = 1

\* C9 as stated: when the event callback calls stop() during a tick, that
\* tick makes no further event callback.
C9_StopObservedByDrain ==
    (hist.last_op = "tick" /\ hist.cb_op = "stop") => hist.cb_after = 0

\* C10 as stated: when the event callback calls rewind() or goto_time(T)
\* during a tick, timepos is 0, respectively T, when the tick returns, and
\* the tick baseline is as rewind left it.
C10_SeekSurvivesTick ==
    (hist.last_op = "tick" /\ hist.cb_op \in {"rewind", "goto"}) =>
        /\ plr.timepos = hist.cb_time
        /\ ~plr.have_tick

\* C11: a step from stopped to running changes neither timepos nor the cursor
\* nor the look-ahead slot and clears the tick baseline, rewind and goto_time
\* clear the baseline too, and a tick (a step that moves the loop time) that
\* finds no baseline leaves timepos as it was, whatever the loop time is.
C11_PauseNotCounted ==
    [][ /\ (~plr.running /\ plr'.running) =>
              /\ plr'.timepos = plr.timepos /\ plr'.pos = plr.pos
              /\ plr'.have_event = plr.have_event /\ plr'.sqevt = plr.sqevt
              /\ ~plr'.have_tick
        /\ (hist' # hist /\ hist'.last_op \in {"rewind", "goto"}) => ~plr'.have_tick
        /\ (now' # now /\ ~plr.have_tick) => plr'.timepos = plr.timepos
        /\ (now' # now /\ plr.have_tick) =>
              plr'.timepos = plr.timepos + plr.speed * (now' - plr.prev_tick)
      ]_vars

\* C11 witness: the ticks since goto_time(MaxTime), the latest at the last loop
\* time, were all first ticks after a start or the seek: timepos is still MaxTime
C11_Witness ==
    /\ hist.last_op = "tick" /\ hist.base = "goto" /\ hist.seekT = MaxTime
    /\ plr.timepos = MaxTime /\ now = MaxNow /\ plr.running /\ plr.have_tick

\* C13: from every state and for every later loop time, the tick of the player
\* without an event callback and the tick of the same player with one end in
\* the same timepos, cursor, look-ahead slot, baseline, running flag and timer,
\* take the same number of events from the cursor and agree on running the
\* finish callback; the only difference is the callback log, which is empty
\* without a callback and holds every event taken with one. (The other
\* operations do not read cbfn to change the player, so equal tick times give
\* equal runs.)
C13_SilentTickSameState ==
    /\ \A tnow \in (now + 1)..MaxNow :
          LET a == fmidi_player_tick([plr EXCEPT !.cbfn = TRUE], tnow, NoCall, NoCall)
              b == fmidi_player_tick([plr EXCEPT !.cbfn = FALSE], tnow, NoCall, NoCall)
          IN  /\ b.p = [a.p EXCEPT !.cbfn = FALSE]
              /\ b.fired = a.fired /\ b.consumed = a.consumed
              /\ b.log = <<>> /\ Len(a.log) = a.consumed
    /\ \A time \in SeekTimes :
          fmidi_player_goto_time([plr EXCEPT !.cbfn = FALSE], time)
            = [fmidi_player_goto_time([plr EXCEPT !.cbfn = TRUE], time) EXCEPT !.cbfn = FALSE]

\* C13 witness: a player without an event callback consumed both events in
\* silence, stopped and ran the finish callback
C13_Witness ==
    /\ hist.last_op = "tick" /\ ~plr.cbfn /\ plr.finifn /\ hist.base = "new"
    /\ Len(seq) = 2 /\ plr.pos = 2 /\ ~plr.have_event /\ ~plr.running
    /\ fin_count = 1 /\ out = <<>> /\ plr.timepos > seq[2].time

\* a step made by a rewind or goto_time call
ResetStep == hist' # hist /\ hist'.last_op \in {"rewind", "goto"}

\* a step in which the cursor gives out an event later than the pending one,
\* which the callback has not received first
PendingOvertaken ==
    /\ plr.cbfn /\ plr.have_event /\ plr'.pos > plr.pos
    /\ ~(/\ now' # now /\ Len(out') > Len(out)
          /\ out'[Len(out) + 1] = SeqCall(plr.sqevt))

\* C15 as stated: under every operation, rewind and goto_time included, no
\* step takes a later event from the cursor while an event is pending without
\* first passing the pending event to the callback.
C15_PendingDeliveredFirst == [][~PendingOvertaken]_vars

\* C15: the pending event is the one just before the cursor; under tick,
\* start, stop and the setters, a step that takes a later event from the
\* cursor first passes the pending event to the callback, and every other
\* step leaves the pending event in its slot; rewind and
\* goto_time drop the pending event without delivering it (goto_time(T) then
\* moves the cursor past every event before T, the dropped one included if
\* its timestamp is before T).
C15_PendingDeliveredUnlessReset ==
    /\ [](plr.have_event => (plr.sqevt = plr.pos /\ plr.pos >= 1))
    /\ [][
          /\ ~ResetStep => ~PendingOvertaken
          /\ (~ResetStep /\ plr.have_event) =>
                \/ (plr'.have_event /\ plr'.sqevt = plr.sqevt /\ plr'.pos = plr.pos)
                \/ (now' # now /\ (plr.cbfn => /\ Len(out') > Len(out)
                                               /\ out'[Len(out) + 1] = SeqCall(plr.sqevt)))
          /\ ResetStep => (~plr'.have_event /\ out' = <<>>
                             /\ plr'.pos = CountBefore(plr'.timepos))
       ]_vars

\* C15 witness: the second event was pending when the latest tick began, and
\* that tick delivered it and found the sequence exhausted
C15_Witness ==
    /\ hist.last_op = "tick" /\ hist.pend = 2 /\ plr.cbfn /\ hist.base = "new"
    /\ out = SeqCalls(0, 2) /\ ~plr.have_event /\ ~plr.running

\* what a finish callback does that calls rewind() and then start()
RestartCall == [k |-> 0, op |-> "restart", time |-> 0]

\* C17: for every tick that runs the finish callback, the player the callback
\* finds is the one the tick leaves behind when the callback does nothing:
\* stopped, timer inactive, timepos, look-ahead and baseline written back. If
\* the callback calls rewind() and start(), the tick returns with exactly what
\* these two calls made of that player: running, timer active, timepos 0,
\* cursor at the start, no pending event, no baseline. In the run that follows
\* the callback receives the events from the first one on, in order.
C17_FinishSeesStopped ==
    /\ \A tnow \in (now + 1)..MaxNow :
          LET quiet == fmidi_player_tick(plr, tnow, NoCall, NoCall)
              again == fmidi_player_tick(plr, tnow, NoCall, RestartCall)
          IN  (plr.timer /\ quiet.fired) =>
                /\ ~quiet.p.running /\ ~quiet.p.timer
                /\ <<FALSE, FALSE>> \in quiet.views
                /\ quiet.p.timepos = quiet.timepos /\ quiet.p.have_tick
                /\ quiet.p.prev_tick = tnow /\ ~quiet.p.have_event
                /\ again.fired
                /\ again.p = fmidi_player_start(fmidi_player_rewind(quiet.p))
                /\ again.p.running /\ again.p.timer /\ again.p.timepos = 0
                /\ again.p.pos = 0 /\ ~again.p.have_event /\ ~again.p.have_tick
    /\ (hist.last_op = "tick" /\ hist.fin_op = "restart") =>
          /\ plr.running /\ plr.timer /\ plr.timepos = 0 /\ plr.pos = 0
          /\ ~plr.have_event /\ ~plr.have_tick /\ out = <<>>
    /\ (hist.base = "rewind" /\ ~hist.dirty /\ ~hist.cb_gap /\ hist.nreent >= 1) =>
          out = SeqCalls(0, Delivered)

\* C17 witness: the tick that delivered the last of two events ran a finish
\* callback that called rewind() and start(): the player is running at 0
C17_Witness ==
    /\ hist.last_op = "tick" /\ hist.fin_op = "restart" /\ Len(seq) = 2
    /\ plr.cbfn /\ hist.pend = 2
    /\ plr.running /\ plr.timer /\ plr.timepos = 0 /\ plr.pos = 0 /\ ~plr.have_tick

\* C17 replay: after the restart made by the finish callback, two more ticks
\* delivered the first event again
C17_WitnessReplay ==
    /\ hist.last_op = "tick" /\ hist.base = "rewind" /\ hist.nreent = 1 /\ plr.cbfn
    /\ now = MaxNow /\ Len(seq) = 1 /\ out = SeqCalls(0, 1) /\ plr.prev_tick = MaxNow

\* Uninterrupted playback: the callbacks, the speed and the position to play
\* from are chosen, the player is started once, and the host loop keeps running the tick handler of the
\* active timer, each time later than the last by up to MaxDt.
StartOnce == ~hist.started /\ Start

SetSpeedFirst == ~hist.started /\ SetSpeed

GotoFirst == ~hist.started /\ GotoTime

TickLater ==
    /\ ev_timer_due(plr)
    /\ \E dt \in 1..MaxDt : TickCore(now + dt, NoCall, NoCall, TRUE)

NextLive ==
    \/ SetSpeedFirst
    \/ GotoFirst
    \/ SetEventCallback
    \/ SetFinishCallback
    \/ StartOnce
    \/ TickLater

\* the repeating timer started by start() fires for as long as it is active:
\* the clock seen by the tick handler moves on by up to MaxDt
TimerFires == ev_timer_due(plr) /\ now' \in {now + dt : dt \in 1..MaxDt}

\* the only step of NextLive that moves the clock is the tick handler, so
\* fairness of the timer is fairness of TickLater
SpecLive == Init /\ [][NextLive]_vars /\ WF_now(TimerFires)

\* the sequence has been played to its end: every event given out and, with
\* a callback registered whenever a tick consumed events, delivered in order
\* (from the position played from); the player stopped by the tick, its timer
\* inactive; the finish callback, if one was registered when that tick began,
\* called once
Finished ==
    /\ plr.pos = Len(seq) /\ ~plr.have_event
    /\ ~hist.cb_gap => out = SeqCalls(CountBefore(RunStart), Len(seq))
    /\ ~plr.running /\ ~plr.timer /\ hist.last_op = "tick"
    /\ fin_count = IF hist.fin_reg THEN 1 ELSE 0

\* C18: once started, a player with positive speed whose timer keeps firing
\* at later and later times reaches the end of the sequence: all events
\* delivered, stopped by itself, finish callback called; and it stays so. The
\* first tick over an empty sequence already ends the playback.
C18_EventuallyFinished ==
    /\ hist.started ~> Finished
    /\ [][Finished => Finished']_vars
    /\ []((Len(seq) = 0 /\ hist.last_op = "tick") => Finished)

\* C18 witness: a playback of two events at different times has finished
C18_Witness ==
    /\ Finished /\ Len(seq) = 2 /\ hist.base = "new" /\ seq[1].time < seq[2].time
    /\ plr.cbfn /\ ~hist.cb_gap /\ plr.finifn /\ hist.fin_reg /\ fin_count = 1
    /\ plr.speed = 1 /\ plr.timepos > seq[2].time /\ out = SeqCalls(0, 2)

\* C19: in an uninterrupted playback at constant speed, after every tick
\* timepos is its value at the start plus speed times the loop time elapsed
\* since the first tick, however many ticks there were and however they were
\* spaced; and from any state with a baseline, the same tick at twice the
\* speed advances timepos twice as far.
C19_DriftFree ==
    /\ hist.last_op = "tick" => plr.timepos = hist.tp0 + plr.speed * (now - hist.n0)
    /\ (plr.timer /\ plr.have_tick) =>
          \A dt \in 1..MaxDt :
             LET one == fmidi_player_tick(plr, now + dt, NoCall, NoCall)
                 two == fmidi_player_tick([plr EXCEPT !.speed = 2 * plr.speed], now + dt,
                                          NoCall, NoCall)
             IN  /\ one.p.timepos - plr.timepos = plr.speed * dt
                 /\ two.p.timepos - plr.timepos = 2 * (one.p.timepos - plr.timepos)

\* C19 witness: speed 1 from timepos 0, and ticks spread over 3 units of
\* loop time after the first one (at least two of them, at most MaxDt
\* apart): timepos is 0 + 1 * 3
C19_Witness ==
    /\ hist.last_op = "tick" /\ hist.tp0 = 0 /\ plr.speed = 1 /\ hist.n0 >= 1
    /\ now - hist.n0 = 3 /\ plr.prev_tick = now /\ plr.timepos = 3

\* The player with the speeds that do not run backwards, zero included.
DrainSpeeds == {0, 1, 2}

SetDrainSpeed ==
    \E speed \in DrainSpeeds :
        /\ plr.alive
        /\ plr' = fmidi_player_set_speed(plr, speed)
        /\ UNCHANGED <<seq, now, out, fin_count, hist>>

NextDrain ==
    \/ Start
    \/ Stop
    \/ Rewind
    \/ GotoTime
    \/ SetDrainSpeed
    \/ SetEventCallback
    \/ Tick
    \/ Free

SpecDrain == Init /\ [][NextDrain]_vars

\* C16 as stated: at the end of every tick the callback has received, since
\* the last rewind or goto_time, exactly the events with timestamp < timepos,
\* and a pending event has timestamp >= timepos.
C16_DeliveredAllBefore ==
    (hist.last_op = "tick" /\ ~hist.cb_gap) =>
        /\ out = SeqCalls(0, CountBefore(plr.timepos))
        /\ plr.have_event => seq[plr.sqevt].time >= plr.timepos

\* C16: at the end of every tick the callback has received, since the last
\* rewind or goto_time, exactly the events with timestamp < timepos and not
\* before the goto_time target (0 without one), in order; the pending event
\* is the first with timestamp >= timepos, and without a pending event every
\* event of the sequence is before timepos.
C16_DeliveredSinceRunStart ==
    (hist.last_op = "tick") =>
        /\ ~hist.cb_gap => out = SeqCalls(CountBefore(RunStart), CountBefore(plr.timepos))
        /\ Delivered = CountBefore(plr.timepos)
        /\ plr.have_event => /\ seq[plr.sqevt].time >= plr.timepos
                              /\ plr.sqevt = CountBefore(plr.timepos) + 1
        /\ ~plr.have_event => CountBefore(plr.timepos) = Len(seq)

\* C16 witness: a tick ended with timepos 1, the event at time 0 delivered and
\* the event at time 1 still pending
C16_Witness ==
    /\ hist.last_op = "tick" /\ plr.cbfn /\ ~hist.cb_gap /\ plr.timepos = 1 /\ Len(seq) = 2
    /\ seq[1].time = 0 /\ seq[2].time = 1
    /\ out = SeqCalls(0, 1) /\ plr.have_event /\ plr.sqevt = 2

\* The player under every kind of speed the setter stores: fmidi_player_set_speed
\* takes any double, negative and zero included.
AnySpeeds == {-1, 0, 1, 2}

SetAnySpeed ==
    \E speed \in AnySpeeds :
        /\ plr.alive
        /\ plr' = fmidi_player_set_speed(plr, speed)
        /\ UNCHANGED <<seq, now, out, fin_count, hist>>

NextSpeed ==
    \/ Start
    \/ Stop
    \/ SetAnySpeed
    \/ SetEventCallback
    \/ Tick
    \/ Free

SpecSpeed == Init /\ [][NextSpeed]_vars

\* C12 as stated: a tick of a running player never lowers timepos, whatever
\* speed was set.
C12_TimeposMonotone ==
    [][(now' # now /\ plr.running) => plr'.timepos >= plr.timepos]_vars

\* The player with its clock frequency being set. The build either keeps
\* the assertions (a failed one ends the process, after which nothing
\* happens) or defines NDEBUG and has none; hist.ndebug says which.
Freqs == {-1, 0, 2, 49, 1000}

\* the frequencies as the doubles the setter is called with: the integers,
\* -0.0 (whose reciprocal is -inf), DBL_MAX (whose reciprocal is subnormal),
\* +inf and a NaN
FreqInputs ==
    {DblFromInt(f) : f \in Freqs} \cup {DblZero(TRUE), DblMax, DblInf(FALSE), DblNaN}

Aborted == hist.last_op \in {"abort", "ev_abort"}

InitClock ==
    /\ seq \in PlaySeqs
    /\ plr = fmidi_player_new
    /\ now = 0
    /\ out = <<>>
    /\ fin_count = 0
    /\ hist \in {[HistInit EXCEPT !.ndebug = b] : b \in BOOLEAN}

SetClockFrequency ==
    \E freq \in FreqInputs :
        LET r == fmidi_player_set_clock_frequency(plr, freq, hist.ndebug)
        IN  /\ plr.alive
            /\ plr' = r.p
            /\ hist' = [hist EXCEPT !.last_op = IF r.ok THEN "setfreq" ELSE "abort",
                                    !.freq = freq]
            /\ UNCHANGED <<seq, now, out, fin_count>>

\* An assertion of the host loop fails and ends the process: in
\* ev_timer_start, called by start() on a stopped player, or when the due
\* timer is armed again. A loop built without assertions goes on instead
\* (Start, Tick).
EvAssert ==
    /\ plr.alive
    /\ \/ ~plr.running /\ ~ev_assert_start(plr)
       \/ ev_timer_due(plr) /\ ~ev_assert_fire(plr)
    /\ hist' = [hist EXCEPT !.last_op = "ev_abort"]
    /\ UNCHANGED <<seq, plr, now, out, fin_count>>

NextClock ==
    \/ (~Aborted /\ Start)
    \/ (~Aborted /\ Stop)
    \/ (~Aborted /\ Rewind)
    \/ (~Aborted /\ SetClockFrequency)
    \/ (~Aborted /\ Tick)
    \/ (~Aborted /\ Free)
    \/ (~Aborted /\ EvAssert)

SpecClock == InitClock /\ [][NextClock]_vars

\* a step made by a set_clock_frequency call
SetFreqStep == hist' # hist /\ hist'.last_op \in {"setfreq", "abort"}

\* C14 as stated: the tick interval is positive in every state that is not
\* aborted; a set_clock_frequency call with a non-positive frequency aborts
\* and stores nothing; one with a positive frequency stores 1/freq and changes
\* nothing else of the player; after the abort nothing changes.
C14_ClockFrequency ==
    /\ [](~Aborted => DblPositive(plr.repeat))
    /\ [][
          /\ (SetFreqStep /\ ~DblPositive(hist'.freq)) =>
                (hist'.last_op = "abort" /\ plr' = plr)
          /\ (SetFreqStep /\ DblPositive(hist'.freq)) =>
                /\ hist'.last_op = "setfreq"
                /\ plr' = [plr EXCEPT !.repeat = DblDiv(DblOne, hist'.freq)]
          /\ Aborted => UNCHANGED vars
       ]_vars

\* C14, the build with assertions: a frequency that is not above 0 (a NaN
\* included) aborts and stores nothing, one above 0 stores 1/freq and changes
\* nothing else; the interval is positive or, after the frequency +inf, zero
C14_WithAssertions ==
    /\ [](~hist.ndebug => (DblPositive(plr.repeat) \/ plr.repeat = DblZero(FALSE)))
    /\ [][ ~hist.ndebug =>
             /\ (SetFreqStep /\ ~DblPositive(hist'.freq)) =>
                   (hist'.last_op = "abort" /\ plr' = plr)
             /\ (SetFreqStep /\ DblPositive(hist'.freq)) =>
                   /\ hist'.last_op = "setfreq"
                   /\ plr' = [plr EXCEPT !.repeat = DblDiv(DblOne, hist'.freq)]
                   /\ hist'.freq.cls = "fin" => DblPositive(plr'.repeat)
             /\ Aborted => UNCHANGED vars
       ]_vars

\* C14, the build with assertions: set_clock_frequency(+inf) returned on a
\* running player and the tick interval is 0
C14_ZeroInterval ==
    /\ ~hist.ndebug /\ hist.last_op = "setfreq" /\ hist.freq = DblInf(FALSE)
    /\ plr.repeat = DblZero(FALSE) /\ plr.running /\ plr.alive

\* C14: set_clock_frequency(DBL_MAX) returned, the tick interval is the
\* subnormal 2^-1024 and current_clock_frequency reads back +inf
C14_SubnormalInterval ==
    /\ hist.last_op = "setfreq" /\ hist.freq = DblMax
    /\ plr.repeat = [cls |-> "fin", neg |-> FALSE, hi |-> LimbTop \div 4, lo |-> 0, e |-> MinExp]
    /\ fmidi_player_current_clock_frequency(plr) = DblInf(FALSE)

\* the timer of a player running at the interval -inf, set by
\* set_clock_frequency(-0.0) in the build with NDEBUG, is due again after
\* it fired and after a stop and start
C14_NegativeInfiniteInterval ==
    /\ hist.ndebug /\ hist.last_op = "tick" /\ hist.freq = DblZero(TRUE)
    /\ plr.repeat = DblInf(TRUE) /\ plr.running /\ ev_timer_due(plr) /\ plr.have_tick

\* C14, the build with NDEBUG: set_clock_frequency(-1) returned on a running
\* player and the tick interval is -1 second
C14_NegativeInterval ==
    /\ hist.ndebug /\ hist.last_op = "setfreq" /\ hist.freq = DblFromInt(-1)
    /\ plr.repeat = DblFromInt(-1) /\ plr.running /\ plr.alive

\* Seeking in sequences of program changes, control changes and other events.
InitSeek == InitWith(SeekSeqs)

NextSeek ==
    \/ SetEventCallback
    \/ GotoTime
    \/ Rewind

SpecSeek == InitSeek /\ [][NextSeek]_vars

\* ------------------------------------------------------------------ C20
\* what rewind() and goto_time() leave alone: the Running/Stopped state, the
\* timer registration, the speed, the tick interval, the callbacks
SameSetup(p, q) ==
    /\ q.running = p.running
    /\ q.timer = p.timer
    /\ q.speed = p.speed
    /\ q.repeat = p.repeat
    /\ q.cbfn = p.cbfn
    /\ q.finifn = p.finifn

\* the tick intervals the player is seeked under: the constructor's
\* 1/1000 s, 1/49 s and half a second
SeekIntervals == {DblDiv(DblOne, DblFromInt(f)) : f \in {g \in Freqs : g > 0}}

\* time lies beyond the last event of the sequence
BeyondLast(time) == \A i \in 1..Len(seq) : seq[i].time < time

\* C20: from every reachable state, at every tick interval, rewind() and
\* goto_time(T) keep running, timer, speed, interval and callbacks; rewind
\* leaves timepos 0 and goto_time(T) exactly T, with no baseline; when T is
\* beyond the last event the cursor is at the end with nothing pending, and
\* the next tick of a running player delivers nothing, keeps timepos = T,
\* stops the player and its timer and calls the finish callback if one is set
\* (checked with and without one)
C20_SeekKeepsSetup ==
    plr.alive =>
    \A interval \in SeekIntervals :
        LET p == [plr EXCEPT !.repeat = interval]
            r == fmidi_player_rewind(p)
        IN  /\ SameSetup(p, r)
            /\ r.timepos = 0 /\ ~r.have_tick
            /\ \A time \in SeekTimes :
                  LET g == fmidi_player_goto_time(p, time)
                  IN  /\ SameSetup(p, g)
                      /\ g.timepos = time /\ ~g.have_tick
                      /\ BeyondLast(time) =>
                            /\ g.pos = Len(seq) /\ ~g.have_event
                            /\ g.timer =>
                                  \A tnow \in (now + 1)..(MaxNow + 1) :
                                  \A fini \in BOOLEAN :
                                     LET gf == fmidi_player_finish_callback(g, fini)
                                         t  == fmidi_player_tick(gf, tnow, NoCall, NoCall)
                                     IN  /\ t.n = 0 /\ t.log = <<>>
                                         /\ t.p.timepos = time
                                         /\ ~t.p.running /\ ~t.p.timer
                                         /\ t.fired = fini
                                         /\ SameSetup([gf EXCEPT !.running = FALSE, !.timer = FALSE], t.p)

\* C20 witness: a running player at speed 2 with an event callback was sought
\* beyond the last of MaxLen events; the first tick after the seek found the
\* sequence exhausted: timepos is still T and the player stopped itself, with
\* no event delivered
C20_Witness ==
    /\ hist.last_op = "tick" /\ hist.base = "goto" /\ hist.seekT = MaxTime + 1
    /\ Len(seq) = MaxLen /\ seq[MaxLen].time = MaxTime
    /\ plr.speed = 2 /\ plr.cbfn
    /\ plr.timepos = MaxTime + 1 /\ plr.pos = MaxLen /\ ~plr.have_event
    /\ plr.have_tick /\ plr.prev_tick = now
    /\ ~plr.running /\ ~plr.timer /\ out = <<>>

\* C20 witness of the seek itself: goto_time beyond the last event was the last call, made
\* on a running player, which it left running with timepos = T
C20_WitnessRunning ==
    /\ hist.last_op = "goto" /\ hist.seekT = MaxTime + 1 /\ Len(seq) = MaxLen
    /\ plr.running /\ plr.timer /\ plr.timepos = MaxTime + 1
    /\ plr.pos = MaxLen /\ plr.speed = 2 /\ ~plr.have_tick

====
